---- MODULE Spec2Model ----
(***************************************************************************)
(* Identifier model of imei-info: the Imei and Tac digit-array types of    *)
(* src/src/wrapper/model.rs, their parsing from strings and integers,      *)
(* their rendering, the Luhn checksum and the Tac <-> Imei conversions.    *)
(*                                                                         *)
(* A string is a sequence of characters, a character a one-letter TLA+     *)
(* string.  A digit array [u8; N] is a sequence of N numbers.  An integer  *)
(* argument is kept as sign and two decimal limbs (value = hi * 10^8 + lo) *)
(* because a 15 digit IMEI does not fit the 32 bit integers of TLC; the    *)
(* operators Int* below give the Rust comparisons, % 10 and / 10 on it.    *)
(***************************************************************************)
EXTENDS Integers, Sequences, FiniteSets, TLC

VARIABLES op, s, val, imei, tac, res, call, luhn

vars == <<op, s, val, imei, tac, res, call, luhn>>

(***************************************************************************)
(* Program constants.                                                      *)
(***************************************************************************)
ImeiDigitCount == 15
TacDigitCount == 8

(***************************************************************************)
(* Bounds of the explored inputs.                                          *)
(***************************************************************************)
\* Longest digit sequence of which every instance is given to luhn_checksum.
MaxLuhnLen == 3
\* Longest run of characters appended to a full-length string.
MaxExtra == 2
\* Largest multiple of 10^15 (resp. 10^8) used for an out-of-range integer.
MaxOver == 2

(***************************************************************************)
(* Option, Result and the error enum.                                      *)
(***************************************************************************)
NoneV == [tag |-> "None"]
Some(x) == [tag |-> "Some", value |-> x]
Ok(d) == [tag |-> "Ok", digits |-> d]
Err(e) == [tag |-> "Err", error |-> e]
\* An index out of bounds: the thread panics, no value is returned.
Panicked == [tag |-> "Panic"]

ImeiWrapperError == {"ValueOutOfRange", "CannotParseDigits", "ChecksumDoesNotMatch"}

digit_count(main_type) ==
    IF main_type = "Imei" THEN ImeiDigitCount ELSE TacDigitCount

\* [0u8; N]
ZeroDigits(n) == [i \in 1..n |-> 0]

(***************************************************************************)
(* Characters.                                                             *)
(***************************************************************************)
DigitChars == <<"0", "1", "2", "3", "4", "5", "6", "7", "8", "9">>
OtherChars == {"a", "-", " "}
Chars == {DigitChars[i] : i \in 1..10} \cup OtherChars

\* char::to_digit(10): Some(0..9) for '0'..'9', None for anything else.
to_digit(c) ==
    IF \E i \in 1..10 : DigitChars[i] = c
    THEN Some((CHOOSE i \in 1..10 : DigitChars[i] = c) - 1)
    ELSE NoneV

\* u8::to_string: the decimal numeral of d, without leading zeros.
RECURSIVE u8_to_string(_)
u8_to_string(d) ==
    IF d < 10 THEN <<DigitChars[d + 1]>>
    ELSE u8_to_string(d \div 10) \o <<DigitChars[(d % 10) + 1]>>

(***************************************************************************)
(* luhn_checksum, as the loop computes it (i is the 1-based position, so   *)
(* the 0-based index i - 1 is odd exactly when i is even).                 *)
(***************************************************************************)
RECURSIVE luhn_sum(_, _, _)
luhn_sum(digits, i, checksum) ==
    IF i > Len(digits) THEN checksum
    ELSE LET digit == digits[i]
             double_digit == digit * 2
         IN  IF (i - 1) % 2 # 0
             THEN IF double_digit < 10
                  THEN luhn_sum(digits, i + 1, checksum + double_digit)
                  ELSE luhn_sum(digits, i + 1, checksum + 1 + (double_digit - 10))
             ELSE luhn_sum(digits, i + 1, checksum + digit)

\* The mutant leaves out the carry of a doubled digit: it adds
\* double_digit - 10 where the code adds 1 + (double_digit - 10).
RECURSIVE luhn_sum_no_carry(_, _, _)
luhn_sum_no_carry(digits, i, checksum) ==
    IF i > Len(digits) THEN checksum
    ELSE LET digit == digits[i]
             double_digit == digit * 2
         IN  IF (i - 1) % 2 # 0
             THEN IF double_digit < 10
                  THEN luhn_sum_no_carry(digits, i + 1, checksum + double_digit)
                  ELSE luhn_sum_no_carry(digits, i + 1, checksum + (double_digit - 10))
             ELSE luhn_sum_no_carry(digits, i + 1, checksum + digit)

luhn_checksum_no_carry(digits) ==
    LET checksum == 10 - (luhn_sum_no_carry(digits, 1, 0) % 10)
    IN  IF checksum = 10 THEN 0 ELSE checksum

\* The mutant forgets to fold a checksum of 10 back to 0.
luhn_checksum_unfolded(digits) ==
    10 - (luhn_sum(digits, 1, 0) % 10)

luhn_checksum(digits) ==
    LET checksum == 10 - (luhn_sum(digits, 1, 0) % 10)
    IN  IF checksum = 10 THEN 0 ELSE checksum

(***************************************************************************)
(* Accessors and validity.                                                 *)
(***************************************************************************)
type_allocation_code(digits) == SubSeq(digits, 1, 8)
check_digit(digits) == digits[15]
\* The mutant hands all 15 digits, check digit included, to the checksum.
without_check_digit_whole(digits) == digits

without_check_digit(digits) == SubSeq(digits, 1, 14)

Imei_is_valid(digits) ==
    luhn_checksum(without_check_digit(digits)) = check_digit(digits)

Tac_is_valid(digits) == TRUE

is_valid(main_type, digits) ==
    IF main_type = "Imei" THEN Imei_is_valid(digits) ELSE Tac_is_valid(digits)

(***************************************************************************)
(* string_to_digits::<N>: the loop writes digits[i] for every character    *)
(* of s; a character that is no digit returns None, a digit at an index    *)
(* outside the array panics.  Slots no character reached keep their 0.     *)
(***************************************************************************)
RECURSIVE string_to_digits_loop(_, _, _, _)
string_to_digits_loop(n, str, i, digits) ==
    IF i > Len(str) THEN Some(digits)
    ELSE LET digit == to_digit(str[i])
         IN  IF digit.tag = "None" THEN NoneV
             ELSE IF i > n THEN Panicked
             ELSE string_to_digits_loop(n, str, i + 1,
                                        [digits EXCEPT ![i] = digit.value])

string_to_digits(n, str) == string_to_digits_loop(n, str, 1, ZeroDigits(n))

\* The mutant validates the checksum of a Tac as if it were an Imei prefix.
Tac_from_str_checked(str) ==
    LET parsed == string_to_digits(TacDigitCount, str)
    IN  IF parsed.tag = "Panic" THEN Panicked
        ELSE IF parsed.tag = "None" THEN Err("CannotParseDigits")
        ELSE IF luhn_checksum(SubSeq(parsed.value, 1, 7)) # parsed.value[8]
             THEN Err("ChecksumDoesNotMatch")
        ELSE Ok(parsed.value)

\* The mutant returns the parsed digits without checking them.
Imei_from_str_unchecked(str) ==
    LET parsed == string_to_digits(ImeiDigitCount, str)
    IN  IF parsed.tag = "Panic" THEN Panicked
        ELSE IF parsed.tag = "None" THEN Err("CannotParseDigits")
        ELSE Ok(parsed.value)

\* impl FromStr for Imei
Imei_from_str(str) ==
    LET parsed == string_to_digits(ImeiDigitCount, str)
    IN  IF parsed.tag = "Panic" THEN Panicked
        ELSE IF parsed.tag = "None" THEN Err("CannotParseDigits")
        ELSE IF ~Imei_is_valid(parsed.value) THEN Err("ChecksumDoesNotMatch")
        ELSE Ok(parsed.value)

\* impl FromStr for Tac
Tac_from_str(str) ==
    LET parsed == string_to_digits(TacDigitCount, str)
    IN  IF parsed.tag = "Panic" THEN Panicked
        ELSE IF parsed.tag = "None" THEN Err("CannotParseDigits")
        ELSE Ok(parsed.value)

\* impl TryFrom<&str> for Imei / for Tac
Imei_try_from_str(str) == Imei_from_str(str)
Tac_try_from_str(str) == Tac_from_str(str)

(***************************************************************************)
(* impl ToString: the numerals of the digits, concatenated in order.       *)
(***************************************************************************)
RECURSIVE digits_to_string(_, _)
digits_to_string(digits, i) ==
    IF i > Len(digits) THEN <<>>
    ELSE u8_to_string(digits[i]) \o digits_to_string(digits, i + 1)

\* The mutant collects the digits from the last to the first.
RECURSIVE digits_to_string_rev(_, _)
digits_to_string_rev(digits, i) ==
    IF i > Len(digits) THEN <<>>
    ELSE digits_to_string_rev(digits, i + 1) \o u8_to_string(digits[i])

Imei_to_string_reversed(digits) == digits_to_string_rev(digits, 1)

\* The mutant renders the digits as one number: leading zeros are lost.
RECURSIVE strip_leading_zeros(_)
strip_leading_zeros(str) ==
    IF Len(str) > 1 /\ str[1] = "0" THEN strip_leading_zeros(Tail(str)) ELSE str

Imei_to_string_truncating(digits) == strip_leading_zeros(digits_to_string(digits, 1))

Imei_to_string(digits) == digits_to_string(digits, 1)
Tac_to_string(digits) == digits_to_string(digits, 1)

(***************************************************************************)
(* Integer arguments: sign and two limbs, value = hi * 10^8 + lo.          *)
(***************************************************************************)
Limb == 10 ^ 8
MkInt(neg, hi, lo) == [neg |-> neg, hi |-> hi, lo |-> lo]
\* val < 0
IntLtZero(v) == v.neg
\* val > 9
IntGt9(v) == ~v.neg /\ (v.hi > 0 \/ v.lo > 9)
\* val % 10 (Limb is a multiple of 10)
IntMod10(v) == v.lo % 10
\* val / 10: the last digit of hi moves to the top of lo
IntDiv10(v) ==
    MkInt(v.neg, v.hi \div 10, (v.hi % 10) * (Limb \div 10) + (v.lo \div 10))

(***************************************************************************)
(* impl_int_to_digits!: TryFrom<integer> for Imei and for Tac.  The loop   *)
(* runs i over (0..digit_count).rev(), here 1-based from digit_count to 1. *)
(***************************************************************************)
RECURSIVE int_to_digits_loop(_, _, _)
int_to_digits_loop(i, v, digits) ==
    IF i = 0 THEN Ok(digits)
    ELSE IF i = 1 /\ IntGt9(v) THEN Err("ValueOutOfRange")
    ELSE int_to_digits_loop(i - 1, IntDiv10(v),
                            [digits EXCEPT ![i] = IntMod10(v)])

\* The mutant drops the range test: the excess high digits are cut off.
RECURSIVE int_to_digits_loop_truncating(_, _, _)
int_to_digits_loop_truncating(i, v, digits) ==
    IF i = 0 THEN Ok(digits)
    ELSE int_to_digits_loop_truncating(i - 1, IntDiv10(v),
                                       [digits EXCEPT ![i] = IntMod10(v)])

impl_int_to_digits_truncating(main_type, v) ==
    IF IntLtZero(v) THEN Err("ValueOutOfRange")
    ELSE LET n == digit_count(main_type)
             filled == int_to_digits_loop_truncating(n, v, ZeroDigits(n))
         IN  IF ~is_valid(main_type, filled.digits)
             THEN Err("ChecksumDoesNotMatch")
             ELSE filled

\* The mutant skips the validity check after the digits are extracted.
impl_int_to_digits_unchecked(main_type, v) ==
    IF IntLtZero(v) THEN Err("ValueOutOfRange")
    ELSE LET n == digit_count(main_type)
         IN  int_to_digits_loop(n, v, ZeroDigits(n))

impl_int_to_digits(main_type, v) ==
    IF IntLtZero(v) THEN Err("ValueOutOfRange")
    ELSE LET n == digit_count(main_type)
             filled == int_to_digits_loop(n, v, ZeroDigits(n))
         IN  IF filled.tag = "Err" THEN filled
             ELSE IF ~is_valid(main_type, filled.digits)
                  THEN Err("ChecksumDoesNotMatch")
             ELSE filled

Imei_try_from(v) == impl_int_to_digits("Imei", v)
Tac_try_from(v) == impl_int_to_digits("Tac", v)

(***************************************************************************)
(* impl From<Tac> for Imei and impl From<Imei> for Tac.                    *)
(***************************************************************************)
\* The mutant leaves the check digit slot at its initial 0.
Imei_from_Tac_no_check_digit(tac_digits) ==
    [i \in 1..ImeiDigitCount |->
        IF i <= 8 THEN tac_digits[i] ELSE 0]

Imei_from_Tac(tac_digits) ==
    [i \in 1..ImeiDigitCount |->
        IF i <= 8 THEN tac_digits[i]
        ELSE IF i = 15 THEN luhn_checksum(tac_digits)
        ELSE 0]

\* The mutant slices the eight digits one place too far to the right.
Tac_from_Imei_shifted(imei_digits) == SubSeq(imei_digits, 2, 9)

Tac_from_Imei(imei_digits) == type_allocation_code(imei_digits)

(***************************************************************************)
(* impl_digits_to_int!: From<Tac> and From<Imei> for the integer types.    *)
(* The arithmetic is done on the two-limb integers; every power, product   *)
(* and partial sum is compared with the MAX of the target type.            *)
(***************************************************************************)
TacIntTypes == { "i32", "u32", "i64", "u64", "i128", "u128", "isize", "usize" }
ImeiIntTypes == { "i64", "u64", "i128", "u128" }

IntLe(a, b) == a.hi < b.hi \/ (a.hi = b.hi /\ a.lo <= b.lo)
\* a + b, with the carry out of the low limb
IntAdd(a, b) ==
    MkInt(FALSE, a.hi + b.hi + ((a.lo + b.lo) \div Limb), (a.lo + b.lo) % Limb)
\* k * a for a small factor k (a digit, or the base 10)
IntMulSmall(k, a) ==
    MkInt(FALSE, k * a.hi + ((k * a.lo) \div Limb), (k * a.lo) % Limb)
\* (10 as $numeric_type).pow(i)
RECURSIVE IntPow10(_)
IntPow10(i) ==
    IF i = 0 THEN MkInt(FALSE, 0, 1) ELSE IntMulSmall(10, IntPow10(i - 1))

\* $numeric_type::MAX.  isize and usize are taken at their narrowest, 32
\* bits.  The MAX of the 64 and 128 bit types is above every value two
\* limbs can hold; the largest such value, below 2^31 * 10^8 < 2^63,
\* stands in for it.
IntMax(numeric_type) ==
    IF numeric_type \in { "i32", "isize" } THEN MkInt(FALSE, 21, 47483647)
    ELSE IF numeric_type \in { "u32", "usize" } THEN MkInt(FALSE, 42, 94967295)
    ELSE MkInt(FALSE, 2147483647, Limb - 1)

Fits(numeric_type, v) == IntLe(v, IntMax(numeric_type))

IntResult(numeric_type, v) == [tag |-> "Int", ty |-> numeric_type, value |-> v]
\* An intermediate value above MAX: a panic in a debug build, a wrapped
\* value in a release build.
Overflowed(numeric_type) == [tag |-> "Overflow", ty |-> numeric_type]

\* .iter().rev().enumerate().map(|(i, d)| d * 10.pow(i)).sum(): i counts
\* from the last digit, acc is the sum so far.
RECURSIVE digits_to_int_sum(_, _, _, _)
digits_to_int_sum(numeric_type, digits, i, acc) ==
    IF i = Len(digits) THEN IntResult(numeric_type, acc)
    ELSE LET power == IntPow10(i)
             term == IntMulSmall(digits[Len(digits) - i], power)
             sum == IntAdd(acc, term)
         IN  IF ~Fits(numeric_type, power) \/ ~Fits(numeric_type, term)
                  \/ ~Fits(numeric_type, sum)
             THEN Overflowed(numeric_type)
             ELSE digits_to_int_sum(numeric_type, digits, i + 1, sum)

\* The mutant enumerates the digits without .rev(): the first digit gets
\* the power 10^0.
RECURSIVE digits_to_int_sum_forward(_, _, _, _)
digits_to_int_sum_forward(numeric_type, digits, i, acc) ==
    IF i = Len(digits) THEN IntResult(numeric_type, acc)
    ELSE digits_to_int_sum_forward(numeric_type, digits, i + 1,
             IntAdd(acc, IntMulSmall(digits[i + 1], IntPow10(i))))

impl_digits_to_int_forward(numeric_type, digits) ==
    digits_to_int_sum_forward(numeric_type, digits, 0, MkInt(FALSE, 0, 0))

\* The mutant raises 10 to the 1-based position: every term is ten times
\* too large.
RECURSIVE digits_to_int_sum_times_ten(_, _, _, _)
digits_to_int_sum_times_ten(numeric_type, digits, i, acc) ==
    IF i = Len(digits) THEN IntResult(numeric_type, acc)
    ELSE LET power == IntPow10(i + 1)
             term == IntMulSmall(digits[Len(digits) - i], power)
             sum == IntAdd(acc, term)
         IN  IF ~Fits(numeric_type, power) \/ ~Fits(numeric_type, term)
                  \/ ~Fits(numeric_type, sum)
             THEN Overflowed(numeric_type)
             ELSE digits_to_int_sum_times_ten(numeric_type, digits, i + 1, sum)

impl_digits_to_int_times_ten(numeric_type, digits) ==
    digits_to_int_sum_times_ten(numeric_type, digits, 0, MkInt(FALSE, 0, 0))

impl_digits_to_int(numeric_type, digits) ==
    digits_to_int_sum(numeric_type, digits, 0, MkInt(FALSE, 0, 0))

(***************************************************************************)
(* Inputs.  Identifiers are written as digit tuples; Numeral gives the     *)
(* string of their characters.                                             *)
(***************************************************************************)
Numeral(ds) == [i \in 1..Len(ds) |-> DigitChars[ds[i] + 1]]

\* The known-valid sample IMEIs of the test module.
SAMPLE_IMEIS_IPHONE_14PM ==
    << <<3,5,5,0,8,6,7,5,2,3,4,0,1,3,3>>, <<3,5,5,0,8,6,7,5,8,4,8,4,5,3,9>>,
       <<3,5,5,0,8,6,7,5,5,7,2,5,0,0,9>>, <<3,5,5,0,8,6,7,5,0,4,4,4,7,4,7>>,
       <<3,5,5,0,8,6,7,5,5,7,6,0,0,0,6>>, <<3,5,5,0,8,6,7,5,4,9,8,0,8,5,2>>,
       <<3,5,5,0,8,6,7,5,2,4,5,6,5,5,8>>, <<3,5,5,0,8,6,7,5,3,0,2,2,5,7,3>>,
       <<3,5,5,0,8,6,7,5,0,0,8,0,5,0,9>>, <<3,5,5,0,8,6,7,5,6,1,5,7,6,2,4>> >>

\* "003456789012345", the leading-zero example.
LeadingZeroImei == <<0,0,3,4,5,6,7,8,9,0,1,2,3,4,5>>

ImeiBases ==
    { SAMPLE_IMEIS_IPHONE_14PM[1], LeadingZeroImei,
      <<0,0,0,0,0,0,0,0,0,0,0,0,0,0,0>>, <<9,9,9,9,9,9,9,9,9,9,9,9,9,9,9>> }

TacBases ==
    { <<1,2,3,4,5,6,7,8>>, <<3,5,5,0,8,6,7,5>>,
      <<0,0,0,0,0,0,0,0>>, <<0,0,3,4,5,6,7,8>>, <<9,9,9,9,9,9,9,9>> }

\* Every string over Chars of 1 to k characters.
Suffixes(k) == UNION { [1..n -> Chars] : n \in 1..k }

\* 14 digits with one of them varied, followed by each possible 15th digit.
ImeiBodies ==
    { [SubSeq(b, 1, 14) EXCEPT ![p] = x] : b \in ImeiBases, p \in 1..14, x \in 0..9 }

ImeiStrings ==
    { Numeral(SAMPLE_IMEIS_IPHONE_14PM[i]) : i \in 1..10 }
      \cup { [Numeral(b) EXCEPT ![p] = c] : b \in ImeiBases, p \in 1..15, c \in Chars }
      \cup { SubSeq(Numeral(b), 1, k) : b \in ImeiBases, k \in 0..15 }
      \cup { Numeral(b) \o x : b \in ImeiBases, x \in Suffixes(MaxExtra) }
      \cup { Numeral(body \o <<d>>) : body \in ImeiBodies, d \in 0..9 }

TacStrings ==
    { [Numeral(b) EXCEPT ![p] = c] : b \in TacBases, p \in 1..8, c \in Chars }
      \cup { SubSeq(Numeral(b), 1, k) : b \in TacBases, k \in 0..8 }
      \cup { Numeral(b) \o x : b \in TacBases, x \in Suffixes(MaxExtra) }

\* Integers around the 15 digit range: hi carries digits 1-7 and up.
ImeiHis == { 0, 34567, 3550867, 9999999 } \cup { k * (10 ^ 7) : k \in 1..MaxOver }
                \cup { k * (10 ^ 7) + 3550867 : k \in 1..MaxOver }
ImeiLos == { 52340133, 58484539, 89012345, 99999999 }
                \cup { m * 10 + d : m \in { 0, 1, 5234013, 8901234, 9999999 }, d \in 0..9 }
ImeiInts ==
    { MkInt(FALSE, h, l) : h \in ImeiHis, l \in ImeiLos }
      \cup { MkInt(TRUE, h, l) : h \in { 0, 3550867 }, l \in { 1, 52340133 } }

\* Integers around the 8 digit range: hi is the 9th digit and up.
TacInts ==
    { MkInt(FALSE, h, l) : h \in 0..MaxOver,
                           l \in { 0, 9, 10, 345678, 12345678, 23456789,
                                   35508675, 99999999 } }
      \cup { MkInt(FALSE, 0, x) : x \in 0..120 }
      \cup { MkInt(TRUE, 0, l) : l \in { 1, 12345678 } }

(***************************************************************************)
(* State: the last operation (op), its string or integer argument or the   *)
(* string it rendered (s, val), the Imei and the Tac the caller holds      *)
(* (Option of a digit array) and the result of the last fallible call.     *)
(***************************************************************************)
\* No lookup has been started: no request sent, no response received.
NoCall ==
    [pc |-> "idle", requests |-> 0, query |-> <<>>, status |-> 0,
     body_ok |-> TRUE, payload |-> <<>>]

Held(result) == IF result.tag = "Ok" THEN Some(result.digits) ELSE NoneV

Init ==
    /\ op = "start"
    /\ s = <<>>
    /\ val = MkInt(FALSE, 0, 0)
    /\ imei = NoneV
    /\ tac = NoneV
    /\ res = NoneV
    /\ call = NoCall
    /\ luhn = NoneV

\* Imei::from_str(str)
ImeiFromStr ==
    /\ op = "start"
    /\ \E str \in ImeiStrings :
        /\ s' = str
        /\ res' = Imei_from_str(str)
        /\ imei' = Held(Imei_from_str(str))
    /\ op' = "Imei::from_str"
    /\ UNCHANGED <<val, tac, call, luhn>>

\* Imei::try_from(str)
ImeiTryFromStr ==
    /\ op = "start"
    /\ \E str \in ImeiStrings :
        /\ s' = str
        /\ res' = Imei_try_from_str(str)
        /\ imei' = Held(Imei_try_from_str(str))
    /\ op' = "Imei::try_from(&str)"
    /\ UNCHANGED <<val, tac, call, luhn>>

\* Tac::from_str(str)
TacFromStr ==
    /\ op = "start"
    /\ \E str \in TacStrings :
        /\ s' = str
        /\ res' = Tac_from_str(str)
        /\ tac' = Held(Tac_from_str(str))
    /\ op' = "Tac::from_str"
    /\ UNCHANGED <<val, imei, call, luhn>>

\* Tac::try_from(str)
TacTryFromStr ==
    /\ op = "start"
    /\ \E str \in TacStrings :
        /\ s' = str
        /\ res' = Tac_try_from_str(str)
        /\ tac' = Held(Tac_try_from_str(str))
    /\ op' = "Tac::try_from(&str)"
    /\ UNCHANGED <<val, imei, call, luhn>>

\* Imei::try_from(v) for an integer v
ImeiTryFromInt ==
    /\ op = "start"
    /\ \E v \in ImeiInts :
        /\ val' = v
        /\ res' = Imei_try_from(v)
        /\ imei' = Held(Imei_try_from(v))
    /\ op' = "Imei::try_from(int)"
    /\ UNCHANGED <<s, tac, call, luhn>>

\* Tac::try_from(v) for an integer v
TacTryFromInt ==
    /\ op = "start"
    /\ \E v \in TacInts :
        /\ val' = v
        /\ res' = Tac_try_from(v)
        /\ tac' = Held(Tac_try_from(v))
    /\ op' = "Tac::try_from(int)"
    /\ UNCHANGED <<s, imei, call, luhn>>

\* Imei::from(tac) for the Tac held
ImeiFromTac ==
    /\ tac.tag = "Some"
    /\ op # "Imei::from(Tac)"
    /\ imei' = Some(Imei_from_Tac(tac.value))
    /\ op' = "Imei::from(Tac)"
    /\ UNCHANGED <<s, val, tac, res, call, luhn>>

\* Tac::from(imei) for the Imei held
TacFromImei ==
    /\ imei.tag = "Some"
    /\ op # "Tac::from(Imei)"
    /\ tac' = Some(Tac_from_Imei(imei.value))
    /\ op' = "Tac::from(Imei)"
    /\ UNCHANGED <<s, val, imei, res, call, luhn>>

\* imei.to_string() for the Imei held
ImeiToString ==
    /\ imei.tag = "Some"
    /\ op \notin { "Imei::to_string", "Imei::from_str(to_string)" }
    /\ s' = Imei_to_string(imei.value)
    /\ op' = "Imei::to_string"
    /\ UNCHANGED <<val, imei, tac, res, call, luhn>>

\* tac.to_string() for the Tac held
TacToString ==
    /\ tac.tag = "Some"
    /\ op \notin { "Tac::to_string", "Tac::from_str(to_string)" }
    /\ s' = Tac_to_string(tac.value)
    /\ op' = "Tac::to_string"
    /\ UNCHANGED <<val, imei, tac, res, call, luhn>>

\* Imei::from_str(&imei.to_string()): the rendered string parsed again
ImeiReparse ==
    /\ op = "Imei::to_string"
    /\ res' = Imei_from_str(s)
    /\ op' = "Imei::from_str(to_string)"
    /\ UNCHANGED <<s, val, imei, tac, call, luhn>>

\* Tac::from_str(&tac.to_string()): the rendered string parsed again
TacReparse ==
    /\ op = "Tac::to_string"
    /\ res' = Tac_from_str(s)
    /\ op' = "Tac::from_str(to_string)"
    /\ UNCHANGED <<s, val, imei, tac, call, luhn>>

\* <integer type>::from(tac) for the Tac a parse returned
TacIntoInt ==
    /\ op \in { "Tac::from_str", "Tac::try_from(int)" }
    /\ tac.tag = "Some"
    /\ \E numeric_type \in TacIntTypes :
        LET r == impl_digits_to_int(numeric_type, tac.value)
        IN  /\ res' = r
            /\ val' = IF r.tag = "Int" THEN r.value ELSE val
    /\ op' = "Tac::into(int)"
    /\ UNCHANGED <<s, imei, tac, call, luhn>>

\* <integer type>::from(imei) for the Imei a parse returned
ImeiIntoInt ==
    /\ op \in { "Imei::from_str", "Imei::try_from(int)" }
    /\ imei.tag = "Some"
    /\ \E numeric_type \in ImeiIntTypes :
        LET r == impl_digits_to_int(numeric_type, imei.value)
        IN  /\ res' = r
            /\ val' = IF r.tag = "Int" THEN r.value ELSE val
    /\ op' = "Imei::into(int)"
    /\ UNCHANGED <<s, imei, tac, call, luhn>>

\* Tac::try_from(<integer>::from(tac)): the integer converted back
TacReconvert ==
    /\ op = "Tac::into(int)"
    /\ res.tag = "Int"
    /\ res' = Tac_try_from(val)
    /\ op' = "Tac::try_from(into)"
    /\ UNCHANGED <<s, val, imei, tac, call, luhn>>

\* Imei::try_from(<integer>::from(imei)): the integer converted back
ImeiReconvert ==
    /\ op = "Imei::into(int)"
    /\ res.tag = "Int"
    /\ res' = Imei_try_from(val)
    /\ op' = "Imei::try_from(into)"
    /\ UNCHANGED <<s, val, imei, tac, call, luhn>>

Next ==
    \/ ImeiFromStr
    \/ ImeiTryFromStr
    \/ TacFromStr
    \/ TacTryFromStr
    \/ ImeiTryFromInt
    \/ TacTryFromInt
    \/ ImeiFromTac
    \/ TacFromImei
    \/ ImeiToString
    \/ TacToString
    \/ ImeiReparse
    \/ TacReparse

Spec == Init /\ [][Next]_vars

(***************************************************************************)
(* The lookup client: get_imei_info and get_tac_info (wrapper/logic.rs),   *)
(* check_imei_with_service (api/logic.rs), classify_response (error.rs)    *)
(* and PhoneInfo::from (wrapper/model.rs).  A call runs up to the await of *)
(* send(); the remote service then answers with a status, a body that      *)
(* deserializes or not and, in a 200 body, an identifier string, or the    *)
(* transport fails.                                                        *)
(***************************************************************************)
Statuses == { 200, 202, 401, 403, 404, 500 }

\* The identifier strings given to the lookups.
LookupImeiIds ==
    { Numeral(SAMPLE_IMEIS_IPHONE_14PM[i]) : i \in 1..10 }
      \cup { [Numeral(SAMPLE_IMEIS_IPHONE_14PM[1]) EXCEPT ![p] = c] :
                p \in 1..15, c \in Chars }
      \cup { SubSeq(Numeral(SAMPLE_IMEIS_IPHONE_14PM[1]), 1, k) : k \in 0..15 }
      \cup { Numeral(SAMPLE_IMEIS_IPHONE_14PM[1]) \o <<c>> : c \in Chars }

LookupTacIds ==
    { [Numeral(<<3,5,5,0,8,6,7,5>>) EXCEPT ![p] = c] : p \in 1..8, c \in Chars }
      \cup { SubSeq(Numeral(<<3,5,5,0,8,6,7,5>>), 1, k) : k \in 0..8 }
      \cup { Numeral(<<3,5,5,0,8,6,7,5>>) \o <<c>> : c \in Chars }

\* The identifier strings a 200 body may carry: the one asked for, and the
\* same with a wrong check digit, a letter, a digit too many or too few,
\* or empty.
Payloads(query) ==
    { query,
      [query EXCEPT ![15] = DigitChars[((to_digit(query[15]).value + 1) % 10) + 1]],
      [query EXCEPT ![15] = "a"],
      query \o <<"0">>,
      SubSeq(query, 1, 14),
      <<>> }

\* check_imei_with_service up to .send(): one GET carrying imei.to_string()
check_imei_with_service(c, imei_digits) ==
    [c EXCEPT !.pc = "awaiting",
              !.requests = c.requests + 1,
              !.query = Imei_to_string(imei_digits)]

\* ServiceCheckError::classify_response: .json().await.unwrap() panics on a
\* body that does not deserialize.
classify_response(status, body_ok) ==
    IF status = 200 THEN (IF body_ok THEN [tag |-> "Body"] ELSE Panicked)
    ELSE IF status = 202
         THEN (IF body_ok THEN Err("RequestPending") ELSE Panicked)
    ELSE IF status = 403 THEN Err("MissingApiKey")
    ELSE IF status = 401
         THEN (IF body_ok THEN Err("InvalidApiKey") ELSE Panicked)
    ELSE IF status = 404 THEN Err("InvalidServiceID")
    ELSE Err("UnknownApiError")

\* impl From<ApiPhoneInfo> for PhoneInfo: Imei::from_str(&info.imei).unwrap().
\* The PhoneInfo is kept as its Imei; the two names are free text.
PhoneInfo_from(payload) ==
    LET parsed == Imei_from_str(payload)
    IN  IF parsed.tag = "Ok" THEN Ok(parsed.digits) ELSE Panicked

Returned(c, outcome) ==
    [c EXCEPT !.pc = IF outcome.tag = "Panic" THEN "aborted" ELSE "returned"]

\* get_imei_info(api_key, id) up to the await of the request
GetImeiInfo ==
    /\ op = "start"
    /\ \E id \in LookupImeiIds :
        LET parsed == Imei_from_str(id)
        IN  /\ s' = id
            /\ IF parsed.tag = "Ok"
               THEN /\ imei' = Some(parsed.digits)
                    /\ call' = check_imei_with_service(call, parsed.digits)
                    /\ res' = res
               ELSE /\ imei' = imei
                    /\ res' = IF parsed.tag = "Panic" THEN Panicked
                              ELSE Err("InvalidImeiNumber")
                    /\ call' = Returned(call, parsed)
    /\ op' = "get_imei_info"
    /\ UNCHANGED <<val, tac, luhn>>

\* get_tac_info(api_key, id) up to the await of the request
GetTacInfo ==
    /\ op = "start"
    /\ \E id \in LookupTacIds :
        LET parsed == Tac_from_str(id)
        IN  /\ s' = id
            /\ IF parsed.tag = "Ok"
               THEN /\ tac' = Some(parsed.digits)
                    /\ imei' = Some(Imei_from_Tac(parsed.digits))
                    /\ call' = check_imei_with_service(call, Imei_from_Tac(parsed.digits))
                    /\ res' = res
               ELSE /\ tac' = tac
                    /\ imei' = imei
                    /\ res' = IF parsed.tag = "Panic" THEN Panicked
                              ELSE Err("InvalidImeiNumber")
                    /\ call' = Returned(call, parsed)
    /\ op' = "get_tac_info"
    /\ UNCHANGED <<val, luhn>>

\* .send().await? fails: the reqwest error becomes UnknownRequestError
TransportFailure ==
    /\ call.pc = "awaiting"
    /\ res' = Err("UnknownRequestError")
    /\ call' = [call EXCEPT !.pc = "returned"]
    /\ UNCHANGED <<op, s, val, imei, tac, luhn>>

\* the response arrives: classify_response, then response.result.into()
ResponseReceived ==
    /\ call.pc = "awaiting"
    /\ \E status \in Statuses, body_ok \in BOOLEAN :
        \E payload \in (IF status = 200 /\ body_ok THEN Payloads(call.query)
                                                   ELSE { <<>> }) :
            LET classified == classify_response(status, body_ok)
                outcome == IF classified.tag = "Body"
                           THEN PhoneInfo_from(payload) ELSE classified
            IN  /\ res' = outcome
                /\ call' = [Returned(call, outcome) EXCEPT !.status = status,
                                                           !.body_ok = body_ok,
                                                           !.payload = payload]
    /\ UNCHANGED <<op, s, val, imei, tac, luhn>>

LookupNext ==
    \/ GetImeiInfo
    \/ GetTacInfo
    \/ TransportFailure
    \/ ResponseReceived

LookupSpec == Init /\ [][LookupNext]_vars

\* Arguments of luhn_checksum: every digit sequence up to MaxLuhnLen, the
\* all-zero sequences, the prefixes of the bases and the 14 digit bodies.
LuhnInputs ==
    UNION { [1..n -> 0..9] : n \in 0..MaxLuhnLen }
      \cup { ZeroDigits(n) : n \in 0..16 }
      \cup { SubSeq(b, 1, k) : b \in ImeiBases, k \in 0..15 }
      \cup ImeiBodies

\* luhn_checksum(digits)
LuhnChecksum ==
    /\ op = "start"
    /\ \E digits \in LuhnInputs :
        luhn' = Some([digits |-> digits, checksum |-> luhn_checksum(digits)])
    /\ op' = "luhn_checksum"
    /\ UNCHANGED <<s, val, imei, tac, res, call>>

LuhnNext == LuhnChecksum

LuhnSpec == Init /\ [][LuhnNext]_vars

\* Parsing followed by the conversions to and from the integer types.
IntNext ==
    \/ ImeiFromStr
    \/ TacFromStr
    \/ ImeiTryFromInt
    \/ TacTryFromInt
    \/ TacIntoInt
    \/ ImeiIntoInt
    \/ TacReconvert
    \/ ImeiReconvert

IntSpec == Init /\ [][IntNext]_vars

(***************************************************************************)
(* Vocabulary of the properties.                                           *)
(***************************************************************************)
ImeiStrOps == { "Imei::from_str", "Imei::try_from(&str)" }
TacStrOps == { "Tac::from_str", "Tac::try_from(&str)" }

IsDecimalDigit(c) == \E d \in 0..9 : DigitChars[d + 1] = c
AllDecimalDigits(str) == \A i \in 1..Len(str) : IsDecimalDigit(str[i])
DigitValue(c) == CHOOSE d \in 0..9 : DigitChars[d + 1] = c
DigitsOf(str) == [i \in 1..Len(str) |-> DigitValue(str[i])]
IsDigitArray(ds, n) == Len(ds) = n /\ \A i \in 1..n : ds[i] \in 0..9

\* The Luhn check digit in closed form: (10 - (sum mod 10)) mod 10.
LuhnTerm(d, index) ==
    IF index % 2 = 0 THEN d ELSE IF 2 * d < 10 THEN 2 * d ELSE 2 * d - 9
RECURSIVE LuhnSum(_, _)
LuhnSum(ds, n) ==
    IF n = 0 THEN 0 ELSE LuhnSum(ds, n - 1) + LuhnTerm(ds[n], n - 1)
LuhnDigit(ds) == (10 - (LuhnSum(ds, Len(ds)) % 10)) % 10

\* v >= 10^n and the n zero-padded decimal digits of v, for n >= 8.
AtLeastPow10(v, n) == v.hi >= 10 ^ (n - 8)
DecimalDigit(v, k) ==
    IF k < 8 THEN (v.lo \div (10 ^ k)) % 10 ELSE (v.hi \div (10 ^ (k - 8))) % 10
ZeroPadded(v, n) == [i \in 1..n |-> DecimalDigit(v, n - i)]

LeadingZeroValid == <<0,0,3,4,5,6,7,8,9,0,1,2,3,4,2>>

(***************************************************************************)
(* C1: parsing an Imei or a Tac from a string returns CannotParseDigits    *)
(* for every string that is not exactly N characters long (shorter or      *)
(* longer) or that holds a character other than 0-9; it neither accepts    *)
(* such a string nor aborts.                                               *)
(***************************************************************************)
C1_MalformedStringRejected ==
    /\ (op \in ImeiStrOps /\ (Len(s) # 15 \/ ~AllDecimalDigits(s)))
         => res = Err("CannotParseDigits")
    /\ (op \in TacStrOps /\ (Len(s) # 8 \/ ~AllDecimalDigits(s)))
         => res = Err("CannotParseDigits")

(***************************************************************************)
(* C2: a string of exactly 15 decimal digits parses as an Imei if and only *)
(* if its 15th digit is the Luhn check digit of the first 14, and fails    *)
(* with ChecksumDoesNotMatch otherwise; the sample IMEIs succeed and       *)
(* "355086752340130" fails; ChecksumDoesNotMatch is reported only for a    *)
(* string that string_to_digits turned into digits, never for one holding  *)
(* a character that is no decimal digit.                                   *)
(***************************************************************************)
C2_ImeiStringParsingValidates ==
    op \in ImeiStrOps =>
        /\ (Len(s) = 15 /\ AllDecimalDigits(s)) =>
              LET d == DigitsOf(s)
              IN  IF d[15] = LuhnDigit(SubSeq(d, 1, 14))
                  THEN res = Ok(d)
                  ELSE res = Err("ChecksumDoesNotMatch")
        /\ (\E i \in 1..10 : s = Numeral(SAMPLE_IMEIS_IPHONE_14PM[i]))
              => res = Ok(DigitsOf(s))
        /\ s = Numeral(<<3,5,5,0,8,6,7,5,2,3,4,0,1,3,0>>)
              => res = Err("ChecksumDoesNotMatch")
        /\ res = Err("ChecksumDoesNotMatch") =>
              /\ AllDecimalDigits(s)
              /\ string_to_digits(ImeiDigitCount, s).tag = "Some"
        /\ string_to_digits(ImeiDigitCount, s).tag = "None"
              => res = Err("CannotParseDigits")

C2_Witness ==
    /\ op = "Imei::from_str"
    /\ s = Numeral(<<3,5,5,0,8,6,7,5,2,3,4,0,1,3,0>>)
    /\ res = Err("ChecksumDoesNotMatch")

(***************************************************************************)
(* C3: every string of exactly 8 decimal digits parses into a Tac holding  *)
(* those digits in order, and no Tac parse, from a string or from an       *)
(* integer, returns ChecksumDoesNotMatch.                                  *)
(***************************************************************************)
C3_TacParsingIsShapeOnly ==
    /\ (op \in TacStrOps /\ Len(s) = 8 /\ AllDecimalDigits(s))
         => res = Ok(DigitsOf(s))
    /\ op \in TacStrOps \cup { "Tac::try_from(int)" }
         => res # Err("ChecksumDoesNotMatch")

C3_Witness ==
    /\ op = "Tac::from_str"
    /\ s = Numeral(<<1,2,3,4,5,6,7,8>>)
    /\ res = Ok(<<1,2,3,4,5,6,7,8>>)

(***************************************************************************)
(* C4: try_from(integer) fails with ValueOutOfRange if and only if the     *)
(* value is negative or at least 10^N; an accepted value is stored as its  *)
(* N zero-padded decimal digits, most significant first.                   *)
(* Tac::try_from(12345678) = [1,2,3,4,5,6,7,8]; Tac::try_from(123456789)   *)
(* and Imei::try_from(-1) are out of range.                                *)
(***************************************************************************)
C4_IntegerRange ==
    /\ op = "Imei::try_from(int)" =>
         /\ res = Err("ValueOutOfRange") <=> (val.neg \/ AtLeastPow10(val, 15))
         /\ res.tag = "Ok" => res.digits = ZeroPadded(val, 15)
         /\ val = MkInt(TRUE, 0, 1) => res = Err("ValueOutOfRange")
    /\ op = "Tac::try_from(int)" =>
         /\ res = Err("ValueOutOfRange") <=> (val.neg \/ AtLeastPow10(val, 8))
         /\ res.tag = "Ok" => res.digits = ZeroPadded(val, 8)
         /\ (~val.neg /\ ~AtLeastPow10(val, 8)) => res.tag = "Ok"
         /\ val = MkInt(FALSE, 0, 12345678) => res = Ok(<<1,2,3,4,5,6,7,8>>)
         /\ val = MkInt(FALSE, 1, 23456789) => res = Err("ValueOutOfRange")

C4_Witness ==
    /\ op = "Tac::try_from(int)"
    /\ val = MkInt(FALSE, 1, 23456789)
    /\ res = Err("ValueOutOfRange")

(***************************************************************************)
(* C5: for 0 <= v < 10^15, Imei::try_from(v) succeeds exactly when the     *)
(* last of the 15 zero-padded digits of v is the Luhn check digit of the   *)
(* first 14 and fails with ChecksumDoesNotMatch otherwise, as              *)
(* Imei::from_str does on the zero-padded numeral of v; outside the range  *)
(* the failure is ValueOutOfRange, whatever the checksum.                  *)
(***************************************************************************)
C5_IntegerParsingValidates ==
    op = "Imei::try_from(int)" =>
        IF val.neg \/ AtLeastPow10(val, 15)
        THEN res = Err("ValueOutOfRange")
        ELSE LET d == ZeroPadded(val, 15)
             IN  /\ res = Imei_from_str(Numeral(d))
                 /\ IF d[15] = LuhnDigit(SubSeq(d, 1, 14))
                    THEN res = Ok(d)
                    ELSE res = Err("ChecksumDoesNotMatch")

C5_Witness ==
    /\ op = "Imei::try_from(int)"
    /\ val = MkInt(FALSE, 3550867, 52340130)
    /\ res = Err("ChecksumDoesNotMatch")

(***************************************************************************)
(* C6: string round trip.  For every Imei x a constructor produced,        *)
(* Imei::from_str(x.to_string()) succeeds with a value equal to x, and     *)
(* for every Tac t, Tac::from_str(t.to_string()) yields t.                 *)
(***************************************************************************)
C6_StringRoundTrip ==
    /\ op = "Imei::from_str(to_string)" => res = Ok(imei.value)
    /\ op = "Tac::from_str(to_string)" => res = Ok(tac.value)

C6_Witness ==
    /\ op = "Imei::from_str(to_string)"
    /\ imei = Some(SAMPLE_IMEIS_IPHONE_14PM[2])
    /\ s = Numeral(SAMPLE_IMEIS_IPHONE_14PM[2])
    /\ res = Ok(SAMPLE_IMEIS_IPHONE_14PM[2])

(***************************************************************************)
(* C7, as claimed: parsing "003456789012345" as an Imei succeeds, the      *)
(* digits start with the two zeros and render back to the same string.     *)
(***************************************************************************)
C7_LeadingZeroExampleParses ==
    (op \in ImeiStrOps /\ s = Numeral(LeadingZeroImei)) =>
        /\ res.tag = "Ok"
        /\ res.digits[1] = 0
        /\ res.digits[2] = 0
        /\ Imei_to_string(res.digits) = s

(***************************************************************************)
(* C7, amended: "003456789012345" is rejected with ChecksumDoesNotMatch    *)
(* (the Luhn check digit of its first 14 digits is 2, not 5);              *)
(* "003456789012342" parses, its digits start with the two zeros in the    *)
(* order given, and it renders back to the identical string.               *)
(***************************************************************************)
C7_LeadingZerosPreserved ==
    /\ (op \in ImeiStrOps /\ s = Numeral(LeadingZeroImei))
         => res = Err("ChecksumDoesNotMatch")
    /\ (op \in ImeiStrOps /\ s = Numeral(LeadingZeroValid)) =>
         /\ res = Ok(LeadingZeroValid)
         /\ res.digits[1] = 0
         /\ res.digits[2] = 0
    /\ (op = "Imei::to_string" /\ imei = Some(LeadingZeroValid))
         => s = Numeral(LeadingZeroValid)

C7_Witness ==
    /\ op = "Imei::to_string"
    /\ imei = Some(LeadingZeroValid)
    /\ res = Ok(LeadingZeroValid)
    /\ s = Numeral(LeadingZeroValid)

(***************************************************************************)
(* C8: digit-count invariant.  Every Imei a constructor produced holds     *)
(* exactly 15 digits, each 0-9, every Tac exactly 8, and the rendered      *)
(* string of such a value has exactly N characters.                        *)
(***************************************************************************)
C8_DigitCount ==
    /\ imei.tag = "Some" =>
         /\ IsDigitArray(imei.value, 15)
         /\ Len(Imei_to_string(imei.value)) = 15
    /\ tac.tag = "Some" =>
         /\ IsDigitArray(tac.value, 8)
         /\ Len(Tac_to_string(tac.value)) = 8
    /\ res.tag = "Ok" => Len(res.digits) \in { 8, 15 }
    /\ op = "Imei::to_string" => Len(s) = 15
    /\ op = "Tac::to_string" => Len(s) = 8

C8_Witness ==
    /\ op = "Imei::to_string"
    /\ tac = Some(<<0,0,0,0,0,0,0,0>>)
    /\ imei = Some(Imei_from_Tac(tac.value))
    /\ Len(s) = 15

(***************************************************************************)
(* C9: checksum correctness.  For 14 digits b, the Imei b ++ <<c>> passes  *)
(* is_valid exactly when c = luhn_checksum(b); with that c the rendering   *)
(* parses, with any other digit it does not.                               *)
(***************************************************************************)
C9_ChecksumCorrect ==
    (op \in ImeiStrOps /\ Len(s) = 15 /\ AllDecimalDigits(s)) =>
        LET d == DigitsOf(s)
            b == SubSeq(d, 1, 14)
        IN  /\ Imei_is_valid(b \o <<luhn_checksum(b)>>)
            /\ \A c \in 0..9 : c # luhn_checksum(b) => ~Imei_is_valid(b \o <<c>>)
            /\ d[15] = luhn_checksum(b) =>
                 /\ res = Ok(d)
                 /\ Imei_from_str(Imei_to_string(d)) = Ok(d)
            /\ d[15] # luhn_checksum(b) => res.tag # "Ok"

C9_Witness ==
    /\ op = "Imei::from_str"
    /\ s = Numeral(<<9,9,9,9,9,9,9,9,9,9,9,9,9,9,4>>)
    /\ res.tag = "Ok"
    /\ Imei_is_valid(res.digits)

(***************************************************************************)
(* C10: Imei::from(t) has digits 1-8 equal to those of t, digits 9-14      *)
(* zero and digit 15 the Luhn checksum of the 8 digits of t followed by    *)
(* six zeros; it passes is_valid.                                          *)
(***************************************************************************)
C10_TacToImei ==
    op = "Imei::from(Tac)" =>
        /\ imei.tag = "Some"
        /\ Len(imei.value) = 15
        /\ SubSeq(imei.value, 1, 8) = tac.value
        /\ \A i \in 9..14 : imei.value[i] = 0
        /\ imei.value[15] = luhn_checksum(tac.value \o <<0,0,0,0,0,0>>)
        /\ imei.value[15] = LuhnDigit(tac.value \o <<0,0,0,0,0,0>>)
        /\ Imei_is_valid(imei.value)

C10_Witness ==
    /\ op = "Imei::from(Tac)"
    /\ tac = Some(<<1,2,3,4,5,6,7,8>>)
    /\ imei = Some(<<1,2,3,4,5,6,7,8,0,0,0,0,0,0,2>>)

(***************************************************************************)
(* C11: Tac::from(x) always succeeds and holds exactly digits 1-8 of x in  *)
(* order; Imeis that differ from x only in the serial number or the check  *)
(* digit give the same Tac; and Tac::from(Imei::from(t)) equals t.         *)
(***************************************************************************)
C11_ImeiToTac ==
    /\ [](op = "Tac::from(Imei)" =>
            /\ tac.tag = "Some"
            /\ Len(tac.value) = 8
            /\ \A i \in 1..8 : tac.value[i] = imei.value[i]
            /\ \A p \in 9..15 : \A x \in 0..9 :
                  Tac_from_Imei([imei.value EXCEPT ![p] = x]) = tac.value)
    /\ [][(op = "Imei::from(Tac)" /\ op' = "Tac::from(Imei)") => tac' = tac]_vars

C11_Witness ==
    /\ op = "Tac::from(Imei)"
    /\ s = Numeral(<<1,2,3,4,5,6,7,8>>)
    /\ imei = Some(<<1,2,3,4,5,6,7,8,0,0,0,0,0,0,2>>)
    /\ tac = Some(<<1,2,3,4,5,6,7,8>>)

(***************************************************************************)
(* C15: converting a Tac or an Imei with digits d_1..d_N into an integer   *)
(* type yields the sum of d_i * 10^(N-i), and no power, product or partial *)
(* sum overflows the type, 32 bit types for a Tac and 64 bit types for an  *)
(* Imei included.                                                          *)
(***************************************************************************)
\* The sum of ds[i] * 10^(last - i) for i in first..last, in plain integers.
RECURSIVE PositionalSum(_, _, _)
PositionalSum(ds, first, last) ==
    IF first > last THEN 0
    ELSE ds[first] * (10 ^ (last - first)) + PositionalSum(ds, first + 1, last)

C15_RenderToInteger ==
    /\ op = "Tac::into(int)" =>
         /\ res.tag = "Int"
         /\ res.value = MkInt(FALSE, 0, PositionalSum(tac.value, 1, 8))
         /\ val = res.value
         /\ Fits(res.ty, res.value)
    /\ op = "Imei::into(int)" =>
         /\ res.tag = "Int"
         /\ res.value = MkInt(FALSE, PositionalSum(imei.value, 1, 7),
                                     PositionalSum(imei.value, 8, 15))
         /\ val = res.value
    /\ res.tag # "Overflow"

C15_Witness ==
    /\ op = "Tac::into(int)"
    /\ tac = Some(<<9,9,9,9,9,9,9,9>>)
    /\ res = IntResult("i32", MkInt(FALSE, 0, 99999999))

(***************************************************************************)
(* C17: integer round trip.  For 0 <= v < 10^8 the integer of              *)
(* Tac::try_from(v) is v; for every Tac t, Tac::try_from(integer of t)     *)
(* is t; for every valid Imei x, Imei::try_from(integer of x) is x.        *)
(***************************************************************************)
C17_IntegerRoundTrip ==
    /\ [](op = "Tac::try_from(into)" => res = Ok(tac.value))
    /\ [](op = "Imei::try_from(into)" => res = Ok(imei.value))
    /\ [][(op = "Tac::try_from(int)" /\ op' = "Tac::into(int)")
             => (res'.tag = "Int" /\ val' = val)]_vars

C17_Witness ==
    /\ op = "Tac::try_from(into)"
    /\ s = <<>>
    /\ val = MkInt(FALSE, 0, 345678)
    /\ tac = Some(<<0,0,3,4,5,6,7,8>>)
    /\ res = Ok(<<0,0,3,4,5,6,7,8>>)

(***************************************************************************)
(* C16: for every sequence of decimal digits, of any length, the empty and *)
(* the all-zero ones included, luhn_checksum returns                       *)
(* (10 - (sum mod 10)) mod 10, where sum adds the digits at even 0-based   *)
(* indices unchanged and, for a digit at an odd index, its double if that  *)
(* is below 10 and its double minus 9 otherwise; the result is a single    *)
(* digit and is 0 for an all-zero sequence.                                *)
(***************************************************************************)
C16_LuhnClosedForm ==
    luhn.tag = "Some" =>
        LET ds == luhn.value.digits
            c == luhn.value.checksum
        IN  /\ c = LuhnDigit(ds)
            /\ c \in 0..9
            /\ (\A i \in 1..Len(ds) : ds[i] = 0) => c = 0

C16_Witness ==
    /\ op = "luhn_checksum"
    /\ luhn = Some([digits |-> <<9, 9>>, checksum |-> 2])

(***************************************************************************)
(* Vocabulary of the lookup properties.                                    *)
(***************************************************************************)
LookupOps == { "get_imei_info", "get_tac_info" }
CallEnded == call.pc \in { "returned", "aborted" }
\* Not 15 decimal digits, or the 15th is not the Luhn digit of the first 14.
MalformedImei(str) ==
    \/ Len(str) # 15
    \/ ~AllDecimalDigits(str)
    \/ DigitsOf(str)[15] # LuhnDigit(SubSeq(DigitsOf(str), 1, 14))
MalformedTac(str) == Len(str) # 8 \/ ~AllDecimalDigits(str)

(***************************************************************************)
(* C12: a lookup whose identifier argument is invalid (wrong length, a     *)
(* character that is no digit, for an IMEI a wrong check digit) returns    *)
(* InvalidImeiNumber and sends no HTTP request; a request is only sent     *)
(* after local validation succeeded.                                       *)
(***************************************************************************)
C12_InvalidIdentifierShortCircuits ==
    /\ (op = "get_imei_info" /\ MalformedImei(s))
         => (call.requests = 0 /\ res = Err("InvalidImeiNumber"))
    /\ (op = "get_tac_info" /\ MalformedTac(s))
         => (call.requests = 0 /\ res = Err("InvalidImeiNumber"))

\* The part of C12 the code keeps: a request is sent only when the local
\* parse returned Ok, and a parse error returns InvalidImeiNumber unsent.
Lookup_RequestOnlyAfterParse ==
    /\ op = "get_imei_info" =>
         /\ call.requests > 0 => Imei_from_str(s).tag = "Ok"
         /\ Imei_from_str(s).tag = "Err"
              => (call.requests = 0 /\ res = Err("InvalidImeiNumber"))
    /\ op = "get_tac_info" =>
         /\ call.requests > 0 => Tac_from_str(s).tag = "Ok"
         /\ Tac_from_str(s).tag = "Err"
              => (call.requests = 0 /\ res = Err("InvalidImeiNumber"))

(***************************************************************************)
(* C13: when the identifier string of the phone-info payload is malformed  *)
(* (not 15 decimal digits, or a wrong check digit), mapping the payload to *)
(* a PhoneInfo fails with CannotParseDigits or ChecksumDoesNotMatch, a     *)
(* failure value returned to the caller, and does not abort.               *)
(***************************************************************************)
C13_MappingFailureIsErrorValue ==
    (op \in LookupOps /\ CallEnded /\ call.status = 200 /\ call.body_ok
        /\ MalformedImei(call.payload))
      => /\ call.pc = "returned"
         /\ res \in { Err("CannotParseDigits"), Err("ChecksumDoesNotMatch") }

(***************************************************************************)
(* C14: a lookup sends at most one GET request and surfaces what it yields *)
(* without a second request: a transport failure is UnknownRequestError,   *)
(* status 202 RequestPending, 403 MissingApiKey, 401 InvalidApiKey, 404    *)
(* InvalidServiceID, any other status but 200 UnknownApiError, and only    *)
(* status 200 yields a PhoneInfo.                                          *)
(***************************************************************************)
C14_SingleRequestSurfaced ==
    op \in LookupOps =>
        /\ call.requests <= 1
        /\ (CallEnded /\ call.requests = 1) =>
             /\ call.status = 0 => res = Err("UnknownRequestError")
             /\ call.status = 202 => res = Err("RequestPending")
             /\ call.status = 403 => res = Err("MissingApiKey")
             /\ call.status = 401 => res = Err("InvalidApiKey")
             /\ call.status = 404 => res = Err("InvalidServiceID")
             /\ call.status \notin { 0, 200, 202, 401, 403, 404 }
                  => res = Err("UnknownApiError")
             /\ res.tag = "Ok" => call.status = 200

\* The part of C14 the code keeps: one request at most, the mapping of the
\* statuses that need no body, and the mapping of 202 and 401 when their
\* body deserializes.
Lookup_SingleRequest ==
    op \in LookupOps =>
        /\ call.requests <= 1
        /\ (CallEnded /\ call.requests = 1) =>
             /\ call.status = 0 => res = Err("UnknownRequestError")
             /\ (call.status = 202 /\ call.body_ok) => res = Err("RequestPending")
             /\ call.status = 403 => res = Err("MissingApiKey")
             /\ (call.status = 401 /\ call.body_ok) => res = Err("InvalidApiKey")
             /\ call.status = 404 => res = Err("InvalidServiceID")
             /\ call.status \notin { 0, 200, 202, 401, 403, 404 }
                  => res = Err("UnknownApiError")
             /\ res.tag = "Ok" => call.status = 200

====
